---- MODULE Spec2Model ----
(***************************************************************************)
(* Model of the f451-comms dispatcher (src/src/f451_comms/comms.py) and of *)
(* the send_message paths of its four providers.                           *)
(*                                                                         *)
(* A Python string is a sequence of lexical atoms.  An atom is a whole     *)
(* name ("f451_mailgun", "email", ...), one blank (SP) or one delimiter    *)
(* (BAR, the value of const.DELIM_STD).  str.split and str.strip are       *)
(* modelled on these sequences, so "email| f451_slack" is                  *)
(* <<"email", BAR, SP, "f451_slack">>.                                     *)
(***************************************************************************)
EXTENDS Integers, Sequences, FiniteSets, TLC

VARIABLES
    settings,          \* the configuration Comms.__init__ was given
    channels,          \* Comms._channels: canonical name -> TRUE (provider) / FALSE (None)
    channel_map,       \* Comms._channel_map: alias -> target name
    default_channels,  \* Comms._default_channels: list of strings
    pc,                \* "idle" | "dispatch" | "returned" | "raised"
    op,                \* the method being called
    kw,                \* its arguments
    retList,           \* value returned by process_channel_list
    retBool,           \* value returned by is_valid_channel / is_enabled_channel
    chList,            \* send_message: the local `channels` (resolved list)
    idx,               \* send_message: position in the list comprehension
    invoked,           \* send_message: channels whose send_message was called
    vendor,            \* send_message: vendor API calls made so far
    results,           \* send_message: the list built by the comprehension
    attrs,             \* send_message: per channel, what this call's arguments hold
    error,             \* exception that left the call, or "none"
    entities,          \* the Entity objects that exist, by the name that holds them
    obj,               \* the attribute processor under construction / in use
    errFile            \* the file name an exception's message carries

cfgVars  == <<settings, channels, channel_map, default_channels>>
callVars == <<pc, op, kw, retList, retBool, chList, idx, invoked, vendor, results,
              attrs, error>>
libVars  == <<entities, obj, errFile>>
vars     == <<settings, channels, channel_map, default_channels, pc, op, kw, retList, retBool,
              chList, idx, invoked, vendor, results, attrs, error, entities, obj, errFile>>

-----------------------------------------------------------------------------
(* constants.py *)

SP  == " "
BAR == "|"

CHANNEL_ALL     == <<"all">>
CHANNEL_MAILGUN == <<"f451_mailgun">>
CHANNEL_SLACK   == <<"f451_slack">>
CHANNEL_TWILIO  == <<"f451_twilio">>
CHANNEL_TWITTER == <<"f451_twitter">>

STATUS_SUCCESS == "success"
STATUS_FAILURE == "failure"

\* The keys Comms.channels.setter puts in the registry.
CanonNames == {CHANNEL_MAILGUN, CHANNEL_SLACK, CHANNEL_TWILIO, CHANNEL_TWITTER}

-----------------------------------------------------------------------------
(* Bounds of the model *)

\* Number of `|`-separated tokens (or list elements) of a selector.
MaxTokens == 2

\* Number of recipients of one Twilio / Twitter-DM send.
MaxRecipients == 2

\* Number of elements of a list handed to an attribute processor.
MaxItems == 3

-----------------------------------------------------------------------------
(* Python str helpers *)

RECURSIVE LStrip(_)
LStrip(s) == IF s # <<>> /\ Head(s) = SP THEN LStrip(Tail(s)) ELSE s

RECURSIVE RStrip(_)
RStrip(s) ==
    IF s # <<>> /\ s[Len(s)] = SP THEN RStrip(SubSeq(s, 1, Len(s) - 1)) ELSE s

\* str.strip()
Strip(s) == RStrip(LStrip(s))

\* str.split(DELIM_STD): always at least one piece, pieces are not trimmed.
RECURSIVE Split(_)
Split(s) ==
    IF \A i \in 1..Len(s) : s[i] # BAR
    THEN <<s>>
    ELSE LET i == CHOOSE j \in 1..Len(s) :
                      s[j] = BAR /\ \A k \in 1..(j - 1) : s[k] # BAR
         IN  <<SubSeq(s, 1, i - 1)>> \o Split(SubSeq(s, i + 1, Len(s)))

\* DELIM_STD.join(list)
RECURSIVE Join(_)
Join(l) ==
    IF l = <<>> THEN <<>>
    ELSE IF Len(l) = 1 THEN l[1]
    ELSE l[1] \o <<BAR>> \o Join(Tail(l))

\* [f(x) for x in l]
RECURSIVE MapStrip(_)
MapStrip(l) == IF l = <<>> THEN <<>> ELSE <<Strip(Head(l))>> \o MapStrip(Tail(l))

NonEmpty(s) == s # <<>>

\* utils.convert_attrib_str_to_list(inStr) with the default delimiter and format
convert_attrib_str_to_list(inStr) == SelectSeq(MapStrip(Split(inStr)), NonEmpty)

-----------------------------------------------------------------------------
(* Selectors: a str or a list of str *)

StrSel(s)  == [isList |-> FALSE, str |-> s, list |-> <<>>]
ListSel(l) == [isList |-> TRUE, str |-> <<>>, list |-> l]

\* Shapes of one token of a selector: names, the `all` token, a padded name,
\* the empty string and (as a list element) a string that holds a delimiter.
TokenShapes ==
    { CHANNEL_MAILGUN, CHANNEL_SLACK, <<"email">>, <<"bogus">>, CHANNEL_ALL,
      <<SP, "f451_slack">>, <<>>, <<"f451_mailgun", BAR, "f451_slack">> }

TokenLists == UNION { [1..n -> TokenShapes] : n \in 0..MaxTokens }

Selectors ==
    { ListSel(l) : l \in TokenLists } \cup
    { StrSel(Join(l)) : l \in TokenLists }

-----------------------------------------------------------------------------
(* Configuration: what Comms.__init__ can build *)

AliasKeys    == { <<"email">>, CHANNEL_SLACK }
AliasTargets == { CHANNEL_MAILGUN, <<"bogus">> }

\* utils.process_key_value_map: keys and values are stripped and non-empty,
\* and hold no delimiter.
AliasMaps == UNION { [K -> AliasTargets] : K \in SUBSET AliasKeys }

\* str(settings.get(CHANNEL_MAIN, KWD_CHANNELS, fallback="")).split(DELIM_STD)
DefaultChannelStrings == { <<>>, <<"email", BAR, SP, "f451_slack">> }

-----------------------------------------------------------------------------
(* Comms: channel verification and resolution *)

\* Comms._normalize_channel_list
_normalize_channel_list(sel) ==
    IF sel.isList
    THEN sel.list                    \* [] when empty, else the list itself
    ELSE IF sel.str = <<>> THEN <<>> ELSE Split(sel.str)

\* Mutant: strict verification that forgets the registry keys.
_verify_channel_alias_only(chName, force) ==
    IF force
    THEN chName # <<>> /\ chName \in DOMAIN channel_map
    ELSE chName # <<>>

\* Comms._verify_channel
_verify_channel(chName, force) ==
    IF force
    THEN chName # <<>> /\ (chName \in DOMAIN channels \/ chName \in DOMAIN channel_map)
    ELSE chName # <<>>

\* Mutant: any() where the code has all().
is_valid_channel_any(sel) ==
    LET tmpList == _normalize_channel_list(sel)
        Ok(ch)  == _verify_channel(ch, TRUE)
    IN  IF tmpList # <<>> THEN (\E i \in 1..Len(tmpList) : Ok(tmpList[i])) ELSE FALSE

\* Comms.is_valid_channel
is_valid_channel(sel) ==
    LET tmpList == _normalize_channel_list(sel)
        Ok(ch)  == _verify_channel(ch, TRUE)
    IN  IF tmpList # <<>> THEN (\A i \in 1..Len(tmpList) : Ok(tmpList[i])) ELSE FALSE

\* Mutant: a registered name counts as enabled even when its entry is None.
is_enabled_channel_registered(sel) ==
    LET tmpList == _normalize_channel_list(sel)
        On(ch)  == ch \in DOMAIN channels
    IN  IF tmpList # <<>> THEN (\A i \in 1..Len(tmpList) : On(tmpList[i])) ELSE FALSE

\* Mutant: any() where the code has all().
is_enabled_channel_any(sel) ==
    LET tmpList == _normalize_channel_list(sel)
        On(ch)  == ch \in DOMAIN channels /\ channels[ch]
    IN  IF tmpList # <<>> THEN (\E i \in 1..Len(tmpList) : On(tmpList[i])) ELSE FALSE

\* Comms.is_enabled_channel
is_enabled_channel(sel) ==
    LET tmpList == _normalize_channel_list(sel)
        On(ch)  == ch \in DOMAIN channels /\ channels[ch]
    IN  IF tmpList # <<>> THEN (\A i \in 1..Len(tmpList) : On(tmpList[i])) ELSE FALSE

\* self._channel_map[item] if item in self._channel_map else item
MapAlias(item) == IF item \in DOMAIN channel_map THEN channel_map[item] ELSE item

RECURSIVE MapAliases(_)
MapAliases(l) == IF l = <<>> THEN <<>> ELSE <<MapAlias(Head(l))>> \o MapAliases(Tail(l))

\* Mutant: a channel named twice is kept once.
process_channel_list_unique(sel, strict) ==
    LET tmpList     == IF sel.isList THEN sel.list
                       ELSE convert_attrib_str_to_list(sel.str)
        Verified(t) == _verify_channel(t, strict)
        Enabled(ch) == is_enabled_channel(StrSel(ch))
        full        == SelectSeq(MapAliases(SelectSeq(MapStrip(tmpList), Verified)), Enabled)
        keep        == { i \in 1..Len(full) : \A j \in 1..(i - 1) : full[j] # full[i] }
    IN  [k \in 1..Cardinality(keep) |->
            full[CHOOSE i \in keep : Cardinality({ j \in keep : j <= i }) = k]]

\* Comms.process_channel_list
process_channel_list(sel, strict) ==
    LET tmpList     == IF sel.isList THEN sel.list
                       ELSE convert_attrib_str_to_list(sel.str)
        Verified(t) == _verify_channel(t, strict)
        Enabled(ch) == is_enabled_channel(StrSel(ch))
    IN  SelectSeq(MapAliases(SelectSeq(MapStrip(tmpList), Verified)), Enabled)

-----------------------------------------------------------------------------
(* Provider / Response contract (providers/provider.py) *)

\* A Python list value and a Response object, told apart by their tag.
PyList(items) == [tag |-> "list", items |-> items]

\* The `errors` argument of a Response: None, or a value with items.
NoErrors       == [isNone |-> TRUE, items |-> <<>>]
ErrorList(l)   == [isNone |-> FALSE, items |-> l]

\* Python truth value of an `errors` argument
Truthy(errors) == ~errors.isNone /\ errors.items # <<>>

\* Mutant: status failure whenever errors is not None.
_make_response_not_none(srvName, errors) ==
    [tag      |-> "Response",
     status   |-> IF ~errors.isNone THEN STATUS_FAILURE ELSE STATUS_SUCCESS,
     provider |-> srvName,
     errors   |-> errors]

\* Provider._make_response
_make_response(srvName, errors) ==
    [tag      |-> "Response",
     status   |-> IF Truthy(errors) THEN STATUS_FAILURE ELSE STATUS_SUCCESS,
     provider |-> srvName,
     errors   |-> errors]

\* Response.isOK: `return self.errors is None`
isOK(response) == response.errors.isNone

\* Response.raise_on_errors: TRUE when it raises CommunicationsError
raise_on_errors(response) == Truthy(response.errors)

\* One call to a vendor API and whether the vendor accepted it.
VendorCall(api, ok) == [api |-> api, ok |-> ok]

\* How a provider's send_message ends: an exception, or a returned list.
Raise(kind, calls)      == [raised |-> kind, ret |-> PyList(<<>>), calls |-> calls]
Return(responses, calls) == [raised |-> "none", ret |-> PyList(responses), calls |-> calls]

-----------------------------------------------------------------------------
(* Mailgun.send_message (providers/mailgun.py) *)

Mailgun_send_message(msgBlank, suppress, subjectBlank, toEmpty, postOK) ==
    IF msgBlank \/ subjectBlank
    THEN Raise("MissingAttributeError", <<>>)          \* _assemble_msg_data
    ELSE IF toEmpty
    THEN Raise("MissingAttributeError", <<>>)          \* ToEmail, strict
    ELSE LET reqErrors == IF postOK THEN <<>> ELSE <<"HTTPError">>
             calls     == <<VendorCall("requests.post", postOK)>>
             response  == _make_response("Mailgun", ErrorList(reqErrors))
         IN  IF ~suppress /\ raise_on_errors(response)
             THEN Raise("CommunicationsError", calls)
             ELSE Return(<<response>>, calls)

-----------------------------------------------------------------------------
(* Slack.send_message (providers/slack.py) *)

\* Slack._post_single_message
_post_single_message(postOK) ==
    IF postOK
    THEN _make_response("Slack", NoErrors)
    ELSE _make_response("Slack", ErrorList(<<"SlackApiError">>))

Slack_send_message(msgBlank, channelBlank, postOK) ==
    IF msgBlank
    THEN Raise("MissingAttributeError", <<>>)
    ELSE IF channelBlank
    THEN Raise("MissingAttributeError", <<>>)
    ELSE Return(<<_post_single_message(postOK)>>,
                <<VendorCall("chat_postMessage", postOK)>>)

-----------------------------------------------------------------------------
(* Twilio.send_message (providers/twilio.py) *)

\* Twilio._send_single_message: the Response it builds
_send_single_message(sendOK) ==
    _make_response("Twilio",
                   ErrorList(IF sendOK THEN <<>> ELSE <<"TwilioRestException">>))

\* Mutant: every recipient is contacted before the first failure is raised.
Twilio_send_each_all(oks, suppress, responses, calls) ==
    LET all == calls \o [i \in 1..Len(oks) |-> VendorCall("messages.create", oks[i])]
    IN  IF ~suppress /\ \E i \in 1..Len(oks) : ~oks[i]
        THEN Raise("CommunicationsError", all)
        ELSE Return(responses \o [i \in 1..Len(oks) |-> _send_single_message(oks[i])], all)

\* The list comprehension over toList.clean: recipients are contacted in
\* order; a raise in _send_single_message ends the comprehension.
RECURSIVE Twilio_send_each(_, _, _, _)
Twilio_send_each(oks, suppress, responses, calls) ==
    IF oks = <<>>
    THEN Return(responses, calls)
    ELSE LET response == _send_single_message(Head(oks))
             calls2   == Append(calls, VendorCall("messages.create", Head(oks)))
         IN  IF ~suppress /\ raise_on_errors(response)
             THEN Raise("CommunicationsError", calls2)
             ELSE Twilio_send_each(Tail(oks), suppress,
                                   Append(responses, response), calls2)

Twilio_send_message(msgBlank, suppress, toEmpty, fromBlank, oks) ==
    IF msgBlank
    THEN Raise("MissingAttributeError", <<>>)
    ELSE IF toEmpty
    THEN Raise("MissingAttributeError", <<>>)          \* ToPhone, strict
    ELSE IF fromBlank
    THEN Raise("MissingAttributeError", <<>>)
    ELSE Twilio_send_each(oks, suppress, <<>>, <<>>)

-----------------------------------------------------------------------------
(* Twitter.send_message (providers/twitter.py) *)

\* kwargs.get(KWD_METHOD_DM, kwargs.get(KWD_METHOD_UPDATE, True))
useDM(method_dm, method_update) ==
    IF method_dm # "missing" THEN method_dm = "True"
    ELSE IF method_update # "missing" THEN method_update = "True"
    ELSE TRUE

\* Twitter.send_status_update
send_status_update(msgBlank, updateOK) ==
    IF msgBlank
    THEN Raise("MissingAttributeError", <<>>)
    ELSE IF updateOK
    THEN Return(<<_make_response("Twitter", NoErrors)>>,
                <<VendorCall("update_status", TRUE)>>)
    ELSE Raise("CommunicationsError", <<VendorCall("update_status", FALSE)>>)

\* Twitter._process_dm_list: get_user_id(dmName, True) for each recipient,
\* in order.  The result is the calls made and whether a lookup raised.
RECURSIVE _process_dm_list(_, _)
_process_dm_list(lookups, calls) ==
    IF lookups = <<>>
    THEN [raised |-> FALSE, calls |-> calls]
    ELSE LET calls2 == Append(calls, VendorCall("get_user", Head(lookups)))
         IN  IF Head(lookups)
             THEN _process_dm_list(Tail(lookups), calls2)
             ELSE [raised |-> TRUE, calls |-> calls2]

\* Twitter._send_single_dm_message: the Response it builds
_send_single_dm_message(sendOK) ==
    _make_response("Twitter",
                   ErrorList(IF sendOK THEN <<>> ELSE <<"HTTPException">>))

RECURSIVE Twitter_send_each(_, _, _, _)
Twitter_send_each(oks, suppress, responses, calls) ==
    IF oks = <<>>
    THEN Return(responses, calls)
    ELSE LET response == _send_single_dm_message(Head(oks))
             calls2   == Append(calls, VendorCall("send_direct_message", Head(oks)))
         IN  IF ~suppress /\ raise_on_errors(response)
             THEN Raise("CommunicationsError", calls2)
             ELSE Twitter_send_each(Tail(oks), suppress,
                                    Append(responses, response), calls2)

\* Twitter.send_dm
send_dm(msgBlank, suppress, toEmpty, lookups, oks) ==
    IF msgBlank
    THEN Raise("MissingAttributeError", <<>>)
    ELSE IF toEmpty
    THEN Raise("MissingAttributeError", <<>>)          \* ToTwitter, strict
    ELSE LET recipientList == _process_dm_list(lookups, <<>>)
         IN  IF recipientList.raised
             THEN Raise("CommunicationsError", recipientList.calls)
             ELSE Twitter_send_each(oks, suppress, <<>>, recipientList.calls)

Twitter_send_message(msgBlank, suppress, method_dm, method_update, toEmpty, lookups, oks, updateOK) ==
    IF useDM(method_dm, method_update)
    THEN send_dm(msgBlank, suppress, toEmpty, lookups, oks)
    ELSE send_status_update(msgBlank, updateOK)

-----------------------------------------------------------------------------
(* What one channel's send_message can do, over the call's keyword         *)
(* arguments, the provider's configured defaults and the vendor's answers. *)
(* Keyword arguments and defaults are the same for every invocation of one *)
(* dispatch; `prior` is what an earlier invocation of the same channel in  *)
(* this dispatch has established about them.                               *)

Outcomes(n) == [1..n -> BOOLEAN]
MethodFlags == {"missing", "True", "False"}

NoAttrs == [set |-> FALSE, dm |-> FALSE, n |-> 0]
Attrs(dm, n) == [set |-> TRUE, dm |-> dm, n |-> n]

\* A required attribute is blank: open on the first invocation, known to be
\* present once an invocation got past its check.
Blank(prior) == IF prior.set THEN {FALSE} ELSE BOOLEAN

\* Number of recipients the call names for the channel.
Recipients(prior) == IF prior.set THEN {prior.n} ELSE 1..MaxRecipients

\* The method_dm / method_update keyword arguments.
Methods(prior) ==
    { m \in MethodFlags \X MethodFlags : prior.set => useDM(m[1], m[2]) = prior.dm }

ProviderChoices(ch, msgBlank, suppress, prior) ==
    IF ch = CHANNEL_MAILGUN THEN
        { [out   |-> Mailgun_send_message(msgBlank, suppress, sb, te, ok),
           attrs |-> Attrs(FALSE, 1)] :
              sb \in Blank(prior), te \in Blank(prior), ok \in BOOLEAN }
    ELSE IF ch = CHANNEL_SLACK THEN
        { [out   |-> Slack_send_message(msgBlank, cb, ok),
           attrs |-> Attrs(FALSE, 1)] :
              cb \in Blank(prior), ok \in BOOLEAN }
    ELSE IF ch = CHANNEL_TWILIO THEN
        UNION { { [out   |-> Twilio_send_message(msgBlank, suppress, te, fb, oks),
                   attrs |-> Attrs(FALSE, n)] :
                      te \in Blank(prior), fb \in Blank(prior), oks \in Outcomes(n) } :
                n \in Recipients(prior) }
    ELSE
        UNION { { [out   |-> Twitter_send_message(msgBlank, suppress, m[1], m[2],
                                                  te, lk, oks, uo),
                   attrs |-> Attrs(useDM(m[1], m[2]), n)] :
                      m \in Methods(prior), te \in Blank(prior),
                      lk \in Outcomes(n), oks \in Outcomes(n), uo \in BOOLEAN } :
                n \in Recipients(prior) }

-----------------------------------------------------------------------------
(* Strings of the attribute values.  Atoms: a whole address, handle, name  *)
(* or file name; a group of digits; one blank, `@`, `-` or `+1` prefix.    *)

AT   == "@"
DASH == "-"
LONG == "x*129"

\* len() of one atom, in characters
AtomLen(a) ==
    CASE a = LONG -> 129
      [] a = "+1" -> 2
      [] a = "2125550001" -> 10
      [] a = "2125550002" -> 10
      [] a = "2345" -> 4
      [] a = "212555000" -> 9
      [] a = "21255500012345" -> 14
      [] a \in {"a@x.com", "A@X.COM", "b@x.com"} -> 7
      [] a \in {"batman", "Batman"} -> 6
      [] a = "robin" -> 5
      [] a = "abc-123" -> 7
      [] a \in {"foo", "Foo", "Bar", "tag"} -> 3
      [] a = "ab" -> 2
      [] OTHER -> 1

\* len(s)
RECURSIVE StrLen(_)
StrLen(s) == IF s = <<>> THEN 0 ELSE AtomLen(Head(s)) + StrLen(Tail(s))

\* s.strip(chars)
RECURSIVE LStripChars(_, _)
LStripChars(s, chars) ==
    IF s # <<>> /\ Head(s) \in chars THEN LStripChars(Tail(s), chars) ELSE s

RECURSIVE RStripChars(_, _)
RStripChars(s, chars) ==
    IF s # <<>> /\ s[Len(s)] \in chars
    THEN RStripChars(SubSeq(s, 1, Len(s) - 1), chars) ELSE s

StripChars(s, chars) == RStripChars(LStripChars(s, chars), chars)

\* s.lower()
LowerAtom(a) ==
    CASE a = "A@X.COM" -> "a@x.com"
      [] a = "Batman" -> "batman"
      [] a = "Foo" -> "foo"
      [] a = "Bar" -> "bar"
      [] OTHER -> a

Lower(s) == [i \in 1..Len(s) |-> LowerAtom(s[i])]

-----------------------------------------------------------------------------
(* utils.py: format validators *)

EmailAtoms  == {"a@x.com", "A@X.COM", "b@x.com"}
HandleAtoms == {"batman", "Batman", "robin"}
DigitAtoms  == {"2125550001", "2125550002", "2345", "212555000", "21255500012345"}
PhoneAtoms  == {"+1"} \cup DigitAtoms

\* re.fullmatch(r"(^[a-zA-Z0-9_.+-]+@[a-zA-Z0-9-]+\.[a-zA-Z0-9-.]+$)", inStr)
is_valid_email(inStr) == Len(inStr) = 1 /\ inStr[1] \in EmailAtoms

\* re.fullmatch(r"^\+[1-9]\d{1,14}$", inStr)
is_valid_phone(inStr) ==
    /\ Len(inStr) >= 2
    /\ inStr[1] = "+1"
    /\ \A i \in 2..Len(inStr) : inStr[i] \in DigitAtoms
    /\ StrLen(inStr) - 2 >= 1
    /\ StrLen(inStr) - 2 <= 14

\* re.fullmatch(r"^[A-Za-z0-9_]{1,15}$", inStr)
is_valid_twitter(inStr) == Len(inStr) = 1 /\ inStr[1] \in HandleAtoms

\* re.sub("[^0-9+]", "", val)
PhoneChars(val) == SelectSeq(val, LAMBDA a : a \in PhoneAtoms)

-----------------------------------------------------------------------------
(* entity.py: Entity *)

_MIN_LEN_PHONE_ == 11
_MAX_LEN_PHONE_ == 15
_MAX_LEN_NAME_  == 128
_MAX_LEN_SLACK_ == 128

Fields == {"name", "email", "phone", "slack", "twitter"}

\* What a property setter does: raise ValueError, or store a value.
Rejected    == [ok |-> FALSE, val |-> <<>>]
Stored(val) == [ok |-> TRUE, val |-> val]

\* Entity.name.setter
Entity_name(val) ==
    LET clean == Strip(val)
    IN  IF clean # <<>> /\ StrLen(clean) > _MAX_LEN_NAME_
        THEN Rejected ELSE Stored(Strip(clean))

\* Mutant: the address is stored without being validated.
Entity_email_unchecked(val) == Stored(Strip(val))

\* Entity.email.setter
Entity_email(val) ==
    LET clean == Strip(val)
    IN  IF clean # <<>> /\ ~is_valid_email(clean)
        THEN Rejected ELSE Stored(clean)

\* Entity.phone.setter
Entity_phone(val) ==
    LET clean == PhoneChars(val)
    IN  IF clean # <<>> /\ (\/ StrLen(clean) < _MIN_LEN_PHONE_
                            \/ StrLen(clean) > _MAX_LEN_PHONE_
                            \/ ~is_valid_phone(clean))
        THEN Rejected ELSE Stored(clean)

\* Entity.slack.setter
Entity_slack(val) ==
    LET clean == StripChars(val, {AT, SP})
    IN  IF clean # <<>> /\ StrLen(clean) > _MAX_LEN_SLACK_
        THEN Rejected ELSE Stored(clean)

\* Entity.twitter.setter
Entity_twitter(val) ==
    LET clean == StripChars(val, {AT, SP})
    IN  IF clean # <<>> /\ ~is_valid_twitter(clean)
        THEN Rejected ELSE Stored(clean)

\* The setter of one field
Setter(field, val) ==
    CASE field = "name"    -> Entity_name(val)
      [] field = "email"   -> Entity_email(val)
      [] field = "phone"   -> Entity_phone(val)
      [] field = "slack"   -> Entity_slack(val)
      [] field = "twitter" -> Entity_twitter(val)

\* Entity.__init__: the five setters; ok is FALSE when one of them raised.
Entity(name, email, phone, slack, twitter) ==
    LET args == [f \in Fields |->
                    CASE f = "name"    -> name
                      [] f = "email"   -> email
                      [] f = "phone"   -> phone
                      [] f = "slack"   -> slack
                      [] f = "twitter" -> twitter]
    IN  [ok  |-> \A f \in Fields : Setter(f, args[f]).ok,
         ent |-> [f \in Fields |-> Setter(f, args[f]).val]]

\* The names a caller holds Entity objects by; NoEntity: none constructed.
EntityNames == {"e1", "e2"}
NoEntity    == [f \in {} |-> <<>>]

\* Values a caller passes for a field: empty, valid, valid once normalised,
\* and invalid.
FieldValues(field) ==
    CASE field = "name"    -> { <<>>, <<SP, "Foo", SP>>, <<LONG>> }
      [] field = "email"   -> { <<>>, <<"a@x.com">>, <<SP, "A@X.COM">>, <<"foo">> }
      [] field = "phone"   -> { <<>>, <<"+1", DASH, "2125550001">>, <<"+1", "2345">>,
                                <<"2125550001">>, <<DASH>>, <<"+1", "212555000">>,
                                <<"+1", "21255500012345">> }
      [] field = "slack"   -> { <<>>, <<AT, "foo">>, <<LONG>> }
      [] field = "twitter" -> { <<>>, <<AT, "batman">>, <<"abc-123">> }

\* The object no call has built yet.
NoObject == [kind |-> "none"]

-----------------------------------------------------------------------------
(* Python values handed to the attribute classes *)

\* An element of a list: a str or an Entity.
StrItem(s) == [type |-> "str", str |-> s, ent |-> NoEntity]
EntItem(e) == [type |-> "Entity", str |-> <<>>, ent |-> e]

\* An `inList` argument: a str, a list, or one Entity.
PyStr(s)    == [type |-> "str", str |-> s, items |-> <<>>]
PyItems(l)  == [type |-> "list", str |-> <<>>, items |-> l]
PyEntity(e) == [type |-> "Entity", str |-> <<>>, items |-> <<EntItem(e)>>]

SetOf(l) == { l[i] : i \in 1..Len(l) }

\* The orders in which iterating over a set can yield its elements.
Orderings(S) ==
    { f \in [1..Cardinality(S) -> S] : \A i, j \in 1..Cardinality(S) : i # j => f[i] # f[j] }

\* l[:n]
Slice(l, n) ==
    IF n >= 0
    THEN SubSeq(l, 1, IF n < Len(l) THEN n ELSE Len(l))
    ELSE SubSeq(l, 1, IF Len(l) + n > 0 THEN Len(l) + n ELSE 0)

\* inList if isinstance(inList, list) else convert_attrib_str_to_list(inList)
AsList(inList) ==
    IF inList.type = "str"
    THEN LET parts == convert_attrib_str_to_list(inList.str)
         IN  [i \in 1..Len(parts) |-> StrItem(parts[i])]
    ELSE inList.items

\* How a function call ends: an exception, or a returned list.
Raised(kind)   == [raised |-> kind, list |-> <<>>]
Returned(list) == [raised |-> "none", list |-> list]

-----------------------------------------------------------------------------
(* entity.py: dedupe_by_attribute *)

RECURSIVE DedupeFrom(_, _, _)
DedupeFrom(items, key, clean) ==
    IF items = <<>> THEN <<>>
    ELSE LET val == Head(items).ent[key]
         IN  IF val # <<>> /\ val \notin clean
             THEN <<Head(items)>> \o DedupeFrom(Tail(items), key, clean \cup {val})
             ELSE DedupeFrom(Tail(items), key, clean)

\* Mutant: duplicates of a key are all kept.
dedupe_by_attribute_keep_all(items, key) ==
    SelectSeq(items, LAMBDA it : it.ent[key] # <<>>)

dedupe_by_attribute(items, key) == DedupeFrom(items, key, {})

-----------------------------------------------------------------------------
(* process_recipient_list of providers/email.py, sms.py and twitter.py *)

RecipientKey(channel) ==
    CASE channel = "email" -> "email"
      [] channel = "sms" -> "phone"
      [] channel = "twitter" -> "twitter"

\* The string an item is validated as
CleanRecipient(channel, s) ==
    CASE channel = "email" -> Strip(s)
      [] channel = "sms" -> PhoneChars(s)
      [] channel = "twitter" -> StripChars(s, {AT, SP})

IsValidRecipient(channel, s) ==
    CASE channel = "email" -> is_valid_email(s)
      [] channel = "sms" -> is_valid_phone(s)
      [] channel = "twitter" -> is_valid_twitter(s)

\* The string an accepted item is turned into
OutRecipient(channel, s) ==
    IF channel = "email" THEN Strip(Lower(s)) ELSE CleanRecipient(channel, s)

\* Entity(email=item) / Entity(phone=item) / Entity(twitter=item)
RecipientEntity(channel, s) ==
    CASE channel = "email" -> Entity(<<>>, s, <<>>, <<>>, <<>>)
      [] channel = "sms" -> Entity(<<>>, <<>>, s, <<>>, <<>>)
      [] channel = "twitter" -> Entity(<<>>, <<>>, <<>>, <<>>, s)

\* [Entity(...=item) for item in outList][:maxNum]
EntitiesOf(channel, outList, maxNum) ==
    IF \E i \in 1..Len(outList) : ~RecipientEntity(channel, outList[i]).ok
    THEN Raised("ValueError")
    ELSE Returned(Slice([i \in 1..Len(outList) |->
                            EntItem(RecipientEntity(channel, outList[i]).ent)], maxNum))

\* The str branch, for one iteration order of tmpSet
FromStrings(channel, order, maxNum) ==
    LET kept    == SelectSeq(order, LAMBDA s : IsValidRecipient(channel, CleanRecipient(channel, s)))
        outList == [i \in 1..Len(kept) |-> OutRecipient(channel, kept[i])]
    IN  IF channel = "email"
        THEN { EntitiesOf(channel, outList, maxNum) }
        ELSE { EntitiesOf(channel, again, maxNum) : again \in Orderings(SetOf(outList)) }

\* process_recipient_list(inList, maxNum): the results the call can have
process_recipient_list(channel, inList, maxNum) ==
    LET items == AsList(inList)
    IN  IF \A i \in 1..Len(items) : items[i].type = "str"
        THEN UNION { FromStrings(channel, order, maxNum) :
                        order \in Orderings({ items[i].str : i \in 1..Len(items) }) }
        ELSE IF \A i \in 1..Len(items) : items[i].type = "Entity"
        THEN { Returned(Slice(dedupe_by_attribute(items, RecipientKey(channel)), maxNum)) }
        ELSE { Returned(<<>>) }

-----------------------------------------------------------------------------
(* providers/provider.py: verify_file, process_media_list;                 *)
(* providers/email.py: process_attachment_list                             *)

REAL_FILE    == <<"real.txt">>
MISSING_FILE == <<"missing.txt">>

\* Path(fName).exists(); Path("") is the current directory
PathExists(fName) == fName = REAL_FILE \/ fName = <<>>

\* How a file-list function ends: the exception and the file its message
\* names, or the list returned.
FileRaise(kind, names) == [raised |-> kind, names |-> names, list |-> <<>>]
FileReturn(list)       == [raised |-> "none", names |-> <<>>, list |-> list]

\* Mutant: in strict mode a blank name is reported as not a file instead of
\* raising.
verify_file_blank_ok(fName, strict) ==
    IF strict /\ ~PathExists(fName)
    THEN [raised |-> TRUE, names |-> fName, result |-> FALSE]
    ELSE [raised |-> FALSE, names |-> <<>>,
          result |-> IF Strip(fName) # <<>> THEN PathExists(fName) ELSE FALSE]

\* verify_file(fName, strict): the file named by the exception, or the result
verify_file(fName, strict) ==
    IF strict /\ (~PathExists(fName) \/ Strip(fName) = <<>>)
    THEN [raised |-> TRUE, names |-> IF fName # <<>> THEN fName ELSE <<"<blank>">>,
          result |-> FALSE]
    ELSE [raised |-> FALSE, names |-> <<>>,
          result |-> IF Strip(fName) # <<>> THEN PathExists(fName) ELSE FALSE]

\* [_process(item, inType) for item in tmpList if verify_file(item.strip(), strict)]
\* _process checks the type and opens the name as given.
RECURSIVE AttachFrom(_, _, _)
AttachFrom(items, inType, strict) ==
    IF items = <<>> THEN FileReturn(<<>>)
    ELSE LET v == verify_file(Strip(Head(items).str), strict)
             rest == AttachFrom(Tail(items), inType, strict)
         IN  IF v.raised THEN FileRaise("InvalidAttributeError", v.names)
             ELSE IF ~v.result THEN rest
             ELSE IF inType \notin {"attachments", "inline"}
             THEN FileRaise("InvalidAttributeError", <<>>)
             ELSE IF ~PathExists(Head(items).str)
             THEN FileRaise("FileNotFoundError", Head(items).str)
             ELSE IF rest.raised # "none" THEN rest
             ELSE FileReturn(<<Head(items)>> \o rest.list)

\* process_attachment_list(inList, inType, maxNum, strict)
process_attachment_list(inList, inType, maxNum, strict) ==
    LET found == AttachFrom(AsList(inList), inType, strict)
    IN  IF found.raised # "none" THEN found ELSE FileReturn(Slice(found.list, maxNum))

\* [item.strip() for item in tmpList if verify_file(item.strip(), strict)]
RECURSIVE MediaFrom(_, _)
MediaFrom(items, strict) ==
    IF items = <<>> THEN FileReturn(<<>>)
    ELSE LET v == verify_file(Strip(Head(items).str), strict)
             rest == MediaFrom(Tail(items), strict)
         IN  IF v.raised THEN FileRaise("InvalidAttributeError", v.names)
             ELSE IF rest.raised # "none" THEN rest
             ELSE IF v.result THEN FileReturn(<<StrItem(Strip(Head(items).str))>> \o rest.list)
             ELSE rest

\* process_media_list(inList, maxNum, strict)
process_media_list(inList, maxNum, strict) ==
    LET found == MediaFrom(AsList(inList), strict)
    IN  IF found.raised # "none" THEN found ELSE FileReturn(Slice(found.list, maxNum))

-----------------------------------------------------------------------------
(* providers/mailgun.py: process_tag_list *)

_MIN_TAG_LEN_ == 3
_MAX_TAG_LEN_ == 128
_MAX_TAG_NUM_ == 3

\* asciiTag[:maxLen], in whole atoms
RECURSIVE TagText(_, _)
TagText(inTag, maxLen) ==
    IF StrLen(inTag) <= maxLen THEN inTag
    ELSE TagText(SubSeq(inTag, 1, Len(inTag) - 1), maxLen)

process_tag_list(inList, maxNum, minTagLen, maxTagLen) ==
    LET tmpList == AsList(inList)
        kept == SelectSeq(tmpList, LAMBDA it :
                    Strip(it.str) # <<>> /\ StrLen(Strip(it.str)) >= minTagLen)
    IN  Slice([i \in 1..Len(kept) |-> StrItem(TagText(Strip(kept[i].str), maxTagLen))], maxNum)

-----------------------------------------------------------------------------
(* The AttributeProcessor classes: ToEmail, CcEmail, Attachments (email.py), *)
(* Tags, RecipientData (mailgun.py), Media (provider.py), ToPhone (sms.py),  *)
(* ToTwitter (twitter.py)                                                    *)

RequiredLists == {"ToEmail", "ToPhone", "ToTwitter"}
Kinds == RequiredLists \cup {"CcEmail", "Attachments", "Tags", "RecipientData", "Media"}

ChannelOf(kind) ==
    CASE kind \in {"ToEmail", "CcEmail"} -> "email"
      [] kind = "ToPhone" -> "sms"
      [] kind = "ToTwitter" -> "twitter"

Max2(a, b) == IF a >= b THEN a ELSE b
Min2(a, b) == IF a <= b THEN a ELSE b

\* self._minNum
MinNumOf(kind) == IF kind \in RequiredLists THEN 1 ELSE 0

\* self._maxNum after __init__: the maxNum setters, and CcEmail's direct
\* assignment
MaxNumOf(kind, val) ==
    CASE kind = "CcEmail" -> val
      [] kind = "Tags" -> Max2(Max2(MinNumOf(kind), val), _MAX_TAG_NUM_)
      [] OTHER -> Max2(MinNumOf(kind), val)

\* The object as __init__ has it before `self.data = inList`
Fresh(kind, maxNum, strict, minLen, maxLen) ==
    [kind   |-> kind,
     minNum |-> MinNumOf(kind),
     maxNum |-> MaxNumOf(kind, maxNum),
     strict |-> strict,
     minLen |-> Max2(_MIN_TAG_LEN_, minLen),
     maxLen |-> Min2(_MAX_TAG_LEN_, maxLen),
     valid  |-> kind \notin RequiredLists,
     data   |-> <<>>]

\* How a statement on an object ends: the exception and the object after it
Outcome(raised, o) == [raised |-> raised, obj |-> o]

\* ToEmail / ToPhone / ToTwitter data.setter, given what
\* process_recipient_list gave
RequiredData(o, r) ==
    IF r.raised # "none" THEN Outcome(r.raised, o)
    ELSE IF Len(r.list) < o.minNum
    THEN Outcome(IF o.strict THEN "MissingAttributeError" ELSE "none",
                 [o EXCEPT !.data = <<>>, !.valid = FALSE])
    ELSE Outcome("none", [o EXCEPT !.data = r.list, !.valid = TRUE])

\* data.setter of a class: the outcomes `obj.data = inList` can have
SetData(o, inList) ==
    CASE o.kind \in RequiredLists ->
            { RequiredData(o, r) : r \in process_recipient_list(ChannelOf(o.kind), inList, o.maxNum) }
      [] o.kind = "CcEmail" ->
            { IF r.raised # "none" THEN Outcome(r.raised, o)
              ELSE Outcome("none", [o EXCEPT !.data = r.list]) :
                 r \in process_recipient_list("email", inList, o.maxNum) }
      [] o.kind = "Attachments" ->
            LET r == process_attachment_list(inList, "attachments", o.maxNum, FALSE)
            IN  { IF r.raised # "none" THEN Outcome(r.raised, o)
                  ELSE Outcome("none", [o EXCEPT !.data = r.list]) }
      [] o.kind = "Media" ->
            LET r == process_media_list(inList, o.maxNum, FALSE)
            IN  { IF r.raised # "none" THEN Outcome(r.raised, o)
                  ELSE Outcome("none", [o EXCEPT !.data = r.list]) }
      [] o.kind = "Tags" ->
            { Outcome("none", [o EXCEPT !.data =
                                  process_tag_list(inList, o.maxNum, o.minLen, o.maxLen)]) }
      [] o.kind = "RecipientData" ->
            { Outcome("none", [o EXCEPT !.data = Slice(inList.items, o.maxNum)]) }

-----------------------------------------------------------------------------
(* entity.py: Entity.__eq__, __repr__, __hash__.  The right operand of a   *)
(* comparison is a Python value: an Entity or something else.              *)

\* s.strip("+") of a stored phone number
StripPlus(s) == IF s # <<>> /\ Head(s) = "+1" THEN <<"1">> \o Tail(s) ELSE s

\* The form in which __eq__ compares the values of a field
Folded(field, val) ==
    CASE field = "email" -> Lower(val)
      [] field = "phone" -> StripPlus(val)
      [] field \in {"twitter", "slack"} -> Lower(StripChars(val, {AT}))
      [] field = "name" -> Lower(val)

\* Mutant: the fields are compared as they are stored.
Entity_eq_exact(self, other) ==
    IF other.type # "Entity" THEN FALSE
    ELSE \E f \in Fields :
            self[f] # <<>> /\ other.ent[f] # <<>> /\ self[f] = other.ent[f]

\* Entity.__eq__(self, other): flag is or-ed over the fields set in both
Entity_eq(self, other) ==
    IF other.type # "Entity" THEN FALSE
    ELSE \E f \in Fields :
            /\ self[f] # <<>> /\ other.ent[f] # <<>>
            /\ Folded(f, self[f]) = Folded(f, other.ent[f])

\* Mutant: the name comes first.
Entity_repr_name_first(self) ==
    IF self["name"] # <<>> THEN self["name"]
    ELSE IF self["email"] # <<>> THEN self["email"]
    ELSE IF self["phone"] # <<>> THEN self["phone"]
    ELSE IF self["twitter"] # <<>> THEN self["twitter"]
    ELSE self["slack"]

\* The value shown by Entity.__repr__:
\* self.email or self.phone or self.twitter or self.slack or self.name
Entity_repr(self) ==
    IF self["email"] # <<>> THEN self["email"]
    ELSE IF self["phone"] # <<>> THEN self["phone"]
    ELSE IF self["twitter"] # <<>> THEN self["twitter"]
    ELSE IF self["slack"] # <<>> THEN self["slack"]
    ELSE self["name"]

\* Entity.__hash__: hash(self.__repr__()); two hashes are taken to be equal
\* exactly when the hashed strings are.
Entity_hash(self) == Entity_repr(self)

\* Right operands of a comparison that no setter call of the caller built:
\* Entity objects whose fields differ from the caller's in letter case only,
\* one with other values, and a str.
CompareOperands ==
    { EntItem(Entity(<<"foo">>, <<>>, <<>>, <<>>, <<>>).ent),
      EntItem(Entity(<<>>, <<>>, <<>>, <<"Foo">>, <<"Batman">>).ent),
      EntItem(Entity(<<"Bar">>, <<"b@x.com">>, <<"+1", "2125550002">>, <<>>, <<"robin">>).ent),
      StrItem(<<"a@x.com">>) }

-----------------------------------------------------------------------------
(* State machine *)

NoKw == [hasChannels |-> FALSE, sel |-> StrSel(<<>>), strict |-> FALSE,
         msgBlank |-> FALSE, suppress |-> FALSE]

\* The configurations a Comms is built from: the channel sections present,
\* the alias map of the main section and its default-channel string.
Settings ==
    [sections : SUBSET CanonNames, channel_map : AliasMaps,
     channels : DefaultChannelStrings]

\* Mutant: a provider is built whether or not its section is present.
_init_provider_always(config, ch) == TRUE

\* Comms._init_mailgun / _init_slack / _init_twilio / _init_twitter: None
\* (FALSE) when the channel's section is missing, else a provider object.
_init_provider(config, ch) == ch \in config.sections

\* Comms.__init__: the default_channels, channel_map and channels setters.
Init ==
    /\ settings \in Settings
    /\ default_channels = Split(settings.channels)
    /\ channel_map = settings.channel_map
    /\ channels = [c \in CanonNames |-> _init_provider(settings, c)]
    /\ pc = "idle"
    /\ op = "none"
    /\ kw = NoKw
    /\ retList = <<>>
    /\ retBool = FALSE
    /\ chList = <<>>
    /\ idx = 0
    /\ invoked = <<>>
    /\ vendor = <<>>
    /\ results = <<>>
    /\ attrs = [c \in CanonNames |-> NoAttrs]
    /\ error = "none"
    /\ entities = [e \in EntityNames |-> NoEntity]
    /\ obj = NoObject
    /\ errFile = <<>>

\* The start of a program that uses the entity and attribute classes on their
\* own: a Comms built from an empty configuration, no object constructed yet.
InitLibrary ==
    /\ settings = [sections |-> {}, channel_map |-> <<>>, channels |-> <<>>]
    /\ default_channels = Split(settings.channels)
    /\ channel_map = settings.channel_map
    /\ channels = [c \in CanonNames |-> _init_provider(settings, c)]
    /\ pc = "idle"
    /\ op = "none"
    /\ kw = NoKw
    /\ retList = <<>>
    /\ retBool = FALSE
    /\ chList = <<>>
    /\ idx = 0
    /\ invoked = <<>>
    /\ vendor = <<>>
    /\ results = <<>>
    /\ attrs = [c \in CanonNames |-> NoAttrs]
    /\ error = "none"
    /\ entities = [e \in EntityNames |-> NoEntity]
    /\ obj = NoObject
    /\ errFile = <<>>

\* A call to process_channel_list(inList, strict)
ProcessChannelList ==
    /\ pc = "idle"
    /\ \E sel \in Selectors, strict \in BOOLEAN :
          /\ kw' = [NoKw EXCEPT !.hasChannels = TRUE, !.sel = sel, !.strict = strict]
          /\ retList' = process_channel_list(sel, strict)
    /\ op' = "process_channel_list"
    /\ pc' = "returned"
    /\ UNCHANGED <<cfgVars, retBool, chList, idx, invoked, vendor, results, attrs, error>>
    /\ UNCHANGED libVars

\* A call to is_valid_channel(inChannels)
IsValidChannel ==
    /\ pc = "idle"
    /\ \E sel \in Selectors :
          /\ kw' = [NoKw EXCEPT !.hasChannels = TRUE, !.sel = sel]
          /\ retBool' = is_valid_channel(sel)
    /\ op' = "is_valid_channel"
    /\ pc' = "returned"
    /\ UNCHANGED <<cfgVars, retList, chList, idx, invoked, vendor, results, attrs, error>>
    /\ UNCHANGED libVars

\* A call to is_enabled_channel(inChannels)
IsEnabledChannel ==
    /\ pc = "idle"
    /\ \E sel \in Selectors :
          /\ kw' = [NoKw EXCEPT !.hasChannels = TRUE, !.sel = sel]
          /\ retBool' = is_enabled_channel(sel)
    /\ op' = "is_enabled_channel"
    /\ pc' = "returned"
    /\ UNCHANGED <<cfgVars, retList, chList, idx, invoked, vendor, results, attrs, error>>
    /\ UNCHANGED libVars

\* The caller has taken the result (or caught the exception); the object is
\* ready for the next call.
NextCall ==
    /\ pc \in {"returned", "raised"}
    /\ pc' = "idle"
    /\ op' = "none"
    /\ kw' = NoKw
    /\ retList' = <<>>
    /\ retBool' = FALSE
    /\ chList' = <<>>
    /\ idx' = 0
    /\ invoked' = <<>>
    /\ vendor' = <<>>
    /\ results' = <<>>
    /\ attrs' = [c \in CanonNames |-> NoAttrs]
    /\ error' = "none"
    /\ UNCHANGED cfgVars
    /\ UNCHANGED libVars

NextResolve == ProcessChannelList \/ IsValidChannel \/ IsEnabledChannel \/ NextCall

SpecResolve == Init /\ [][NextResolve]_vars

-----------------------------------------------------------------------------
(* Comms.send_message *)

\* Tokens a caller of send_message names channels with.
DispatchTokens ==
    { CHANNEL_MAILGUN, CHANNEL_SLACK, CHANNEL_TWILIO, CHANNEL_TWITTER,
      <<"email">>, <<"bogus">> }

DispatchSelectors ==
    { StrSel(CHANNEL_ALL) } \cup
    { StrSel(Join(<<a>>)) : a \in DispatchTokens } \cup
    { StrSel(Join(<<a, b>>)) : a \in DispatchTokens, b \in DispatchTokens }

\* Mutant: the `channels` keyword is ignored.
ChannelSelector_default(k) == ListSel(default_channels)

\* chList = kwargs.get(const.KWD_CHANNELS, self._default_channels)
ChannelSelector(k) == IF k.hasChannels THEN k.sel ELSE ListSel(default_channels)

\* Mutant: the empty check is missing.
NoChannels_unchecked(resolved) == FALSE

\* if not channels: raise InvalidProviderError
NoChannels(resolved) == resolved = <<>>

\* Entry of send_message: resolve the selector, raise when nothing is left.
SendMessage ==
    /\ pc = "idle"
    /\ \E hasChannels \in BOOLEAN, sel \in DispatchSelectors,
          msgBlank \in BOOLEAN, suppress \in BOOLEAN :
          LET k == [hasChannels |-> hasChannels,
                    sel         |-> IF hasChannels THEN sel ELSE StrSel(<<>>),
                    strict      |-> TRUE,
                    msgBlank    |-> msgBlank,
                    suppress    |-> suppress]
              resolved == process_channel_list(ChannelSelector(k), TRUE)
          IN  /\ kw' = k
              /\ chList' = resolved
              /\ IF NoChannels(resolved)
                 THEN pc' = "raised" /\ error' = "InvalidProviderError" /\ idx' = 0
                 ELSE /\ pc' = IF resolved = <<>> THEN "returned" ELSE "dispatch"
                      /\ error' = "none"
                      /\ idx' = 1
    /\ op' = "send_message"
    /\ UNCHANGED <<cfgVars, retList, retBool, invoked, vendor, results, attrs>>
    /\ UNCHANGED libVars

\* pc after the comprehension has handled element i of n
AfterElement(i, n) == IF i = n THEN "returned" ELSE "dispatch"

\* One element of the list comprehension:
\*   self._channels[ch].send_message(msg, **kwargs) ... if self._channels[ch]
ChannelSend ==
    /\ pc = "dispatch"
    /\ idx \in 1..Len(chList)
    /\ LET ch == chList[idx]
       IN  IF ch \notin DOMAIN channels
           THEN /\ pc' = "raised"
                /\ error' = "KeyError"
                /\ UNCHANGED <<idx, invoked, vendor, results, attrs>>
           ELSE IF ~channels[ch]
           THEN /\ pc' = AfterElement(idx, Len(chList))
                /\ idx' = idx + 1
                /\ UNCHANGED <<invoked, vendor, results, attrs, error>>
           ELSE \E c \in ProviderChoices(ch, kw.msgBlank, kw.suppress, attrs[ch]) :
                /\ invoked' = Append(invoked, ch)
                /\ vendor' = vendor \o c.out.calls
                /\ attrs' = [attrs EXCEPT ![ch] = c.attrs]
                /\ IF c.out.raised # "none"
                   THEN /\ pc' = "raised"
                        /\ error' = c.out.raised
                        /\ UNCHANGED <<idx, results>>
                   ELSE /\ pc' = AfterElement(idx, Len(chList))
                        /\ idx' = idx + 1
                        /\ results' = Append(results, c.out.ret)
                        /\ UNCHANGED error
    /\ UNCHANGED <<cfgVars, op, kw, retList, retBool, chList>>
    /\ UNCHANGED libVars

\* A call to send_message_via_mailgun / _slack / _twilio / _twitter
SendMessageVia ==
    /\ pc = "idle"
    /\ \E ch \in CanonNames, msgBlank \in BOOLEAN, suppress \in BOOLEAN :
          /\ kw' = [NoKw EXCEPT !.sel = StrSel(ch), !.msgBlank = msgBlank,
                                !.suppress = suppress]
          /\ IF ~channels[ch]
             THEN /\ pc' = "raised"
                  /\ error' = "InvalidProviderError"
                  /\ UNCHANGED <<invoked, vendor, results, attrs>>
             ELSE \E c \in ProviderChoices(ch, msgBlank, suppress, NoAttrs) :
                  /\ invoked' = <<ch>>
                  /\ vendor' = c.out.calls
                  /\ attrs' = [attrs EXCEPT ![ch] = c.attrs]
                  /\ IF c.out.raised # "none"
                     THEN pc' = "raised" /\ error' = c.out.raised /\ UNCHANGED results
                     ELSE pc' = "returned" /\ error' = "none"
                          /\ results' = c.out.ret.items
    /\ op' = "send_message_via"
    /\ UNCHANGED <<cfgVars, retList, retBool, chList, idx>>
    /\ UNCHANGED libVars

Next == SendMessage \/ ChannelSend \/ SendMessageVia \/ NextCall

Spec == Init /\ [][Next]_vars

\* Every operation of a constructed Comms.
NextComms == Next \/ NextResolve

SpecComms == Init /\ [][NextComms]_vars

-----------------------------------------------------------------------------
(* Entity objects: construction and field assignment *)

entityCallVars == <<settings, channels, channel_map, default_channels, retList, retBool,
                    chList, idx, invoked, vendor, results, attrs, obj, errFile>>

\* A call to Entity(name=..., email=..., phone=..., slack=..., twitter=...)
NewEntity ==
    /\ pc = "idle"
    /\ \E e \in EntityNames :
       \E n \in FieldValues("name"), m \in FieldValues("email"), p \in FieldValues("phone"),
          s \in FieldValues("slack"), t \in FieldValues("twitter") :
          LET made == Entity(n, m, p, s, t)
          IN  /\ entities[e] = NoEntity
              /\ kw' = [target |-> e, field |-> "__init__", before |-> entities,
                        val |-> <<n, m, p, s, t>>]
              /\ IF made.ok
                 THEN /\ entities' = [entities EXCEPT ![e] = made.ent]
                      /\ pc' = "returned" /\ error' = "none"
                 ELSE /\ pc' = "raised" /\ error' = "ValueError"
                      /\ UNCHANGED entities
    /\ op' = "Entity"
    /\ UNCHANGED entityCallVars

\* An assignment e.<field> = val
SetField ==
    /\ pc = "idle"
    /\ \E e \in EntityNames, f \in Fields :
       \E v \in FieldValues(f) :
          /\ entities[e] # NoEntity
          /\ kw' = [target |-> e, field |-> f, before |-> entities, val |-> v]
          /\ IF Setter(f, v).ok
             THEN /\ entities' = [entities EXCEPT ![e][f] = Setter(f, v).val]
                  /\ pc' = "returned" /\ error' = "none"
             ELSE /\ pc' = "raised" /\ error' = "ValueError"
                  /\ UNCHANGED entities
    /\ op' = "setattr"
    /\ UNCHANGED entityCallVars

\* e == other
Compare ==
    /\ pc = "idle"
    /\ \E e \in EntityNames :
       \E other \in CompareOperands
                    \cup { EntItem(entities[o]) : o \in { n \in EntityNames : entities[n] # NoEntity } } :
          /\ entities[e] # NoEntity
          /\ kw' = [target |-> e, field |-> "__eq__", before |-> entities, val |-> other]
          /\ retBool' = Entity_eq(entities[e], other)
    /\ op' = "__eq__"
    /\ pc' = "returned"
    /\ error' = "none"
    /\ UNCHANGED <<cfgVars, retList, chList, idx, invoked, vendor, results, attrs>>
    /\ UNCHANGED libVars

\* hash(e)
Hash ==
    /\ pc = "idle"
    /\ \E e \in EntityNames :
          /\ entities[e] # NoEntity
          /\ kw' = [target |-> e, field |-> "__hash__", before |-> entities, val |-> <<>>]
          /\ retList' = Entity_hash(entities[e])
    /\ op' = "__hash__"
    /\ pc' = "returned"
    /\ error' = "none"
    /\ UNCHANGED <<cfgVars, retBool, chList, idx, invoked, vendor, results, attrs>>
    /\ UNCHANGED libVars

\* The statement is over; the caller goes on.
EntityDone ==
    /\ pc \in {"returned", "raised"}
    /\ pc' = "idle"
    /\ op' = "none"
    /\ kw' = NoKw
    /\ error' = "none"
    /\ retBool' = FALSE
    /\ retList' = <<>>
    /\ UNCHANGED <<cfgVars, chList, idx, invoked, vendor, results, attrs>>
    /\ UNCHANGED libVars

NextEntity == NewEntity \/ SetField \/ Compare \/ Hash \/ EntityDone

SpecEntity == InitLibrary /\ [][NextEntity]_vars

-----------------------------------------------------------------------------
(* Attribute processors: construction, assignment to `data`, and direct    *)
(* calls of the list functions                                             *)

\* Elements of the lists a caller passes
EmailStrings  == { <<"a@x.com">>, <<"A@X.COM">>, <<"b@x.com">>, <<"foo">> }
PhoneStrings  == { <<"+1", "2125550001">>, <<"+1", DASH, "2125550001">>,
                   <<"+1", "2345">>, <<"2125550001">> }
HandleStrings == { <<"batman">>, <<AT, "batman">>, <<"robin">>, <<"abc-123">> }
FileStrings   == { REAL_FILE, MISSING_FILE, <<>>, <<SP, "real.txt">> }
TagStrings    == { <<"tag">>, <<SP, "Foo">>, <<"ab">>, <<"abc-123">> }

\* Entity objects a caller passes: two that share every identity key, one
\* with other keys, one with no key at all.
EntityPool ==
    { Entity(<<"Foo">>, <<"a@x.com">>, <<"+1", "2125550001">>, <<>>, <<"batman">>).ent,
      Entity(<<"Bar">>, <<"a@x.com">>, <<"+1", "2125550001">>, <<>>, <<"batman">>).ent,
      Entity(<<"Foo">>, <<"b@x.com">>, <<"+1", "2125550002">>, <<>>, <<"robin">>).ent,
      Entity(<<"Bar">>, <<>>, <<>>, <<>>, <<>>).ent }

ListsOf(pool) == UNION { [1..n -> pool] : n \in 0..MaxItems }

\* list arguments, and `|`-delimited str arguments
StrArgs(pool) ==
    { PyItems([i \in 1..Len(l) |-> StrItem(l[i])]) : l \in ListsOf(pool) }
    \cup { PyStr(s) : s \in pool }
    \cup { PyStr(s \o <<BAR, SP>> \o t) : s \in pool, t \in pool }

EntityArgs ==
    { PyItems([i \in 1..Len(l) |-> EntItem(l[i])]) : l \in ListsOf(EntityPool) }
    \cup { PyEntity(e) : e \in EntityPool }

\* dict arguments of RecipientData: the keys in insertion order
DictArgs ==
    { PyItems([i \in 1..Len(l) |-> StrItem(l[i])]) :
         l \in { m \in ListsOf(EmailStrings) : \A i, j \in 1..Len(m) : i # j => m[i] # m[j] } }

StringsOf(channel) ==
    CASE channel = "email" -> EmailStrings
      [] channel = "sms" -> PhoneStrings
      [] channel = "twitter" -> HandleStrings

ArgsOf(kind) ==
    CASE kind \in RequiredLists \cup {"CcEmail"} -> StrArgs(StringsOf(ChannelOf(kind))) \cup EntityArgs
      [] kind \in {"Attachments", "Media"} -> StrArgs(FileStrings)
      [] kind = "Tags" -> StrArgs(TagStrings)
      [] kind = "RecipientData" -> DictArgs

\* maxNum, minLen and maxLen arguments
MaxNums == {-1, 0, 1, 2, 100}
MinLens == {0, 4}
MaxLens == {128}

attribCallVars == <<settings, channels, channel_map, default_channels, retBool,
                    chList, idx, invoked, vendor, results, attrs, entities>>

\* ToEmail(inList, maxNum, strict), CcEmail(inList, maxNum), Tags(inList,
\* maxNum, minLen, maxLen), ...: __init__ up to and including
\* `self.data = inList`
Construct ==
    /\ pc = "idle"
    /\ obj = NoObject
    /\ \E kind \in Kinds, maxNum \in MaxNums :
       \E inList \in ArgsOf(kind),
          strict \in (IF kind \in RequiredLists THEN BOOLEAN ELSE {FALSE}),
          minLen \in (IF kind = "Tags" THEN MinLens ELSE {0}),
          maxLen \in MaxLens :
       \E out \in SetData(Fresh(kind, maxNum, strict, minLen, maxLen), inList) :
          /\ kw' = [kind |-> kind, inList |-> inList, maxNum |-> maxNum, strict |-> strict,
                    minLen |-> minLen, maxLen |-> maxLen, before |-> obj]
          /\ op' = "__init__"
          /\ error' = out.raised
          /\ IF out.raised = "none"
             THEN pc' = "returned" /\ obj' = out.obj
             ELSE pc' = "raised" /\ obj' = NoObject
    /\ retList' = <<>>
    /\ errFile' = <<>>
    /\ UNCHANGED attribCallVars

\* obj.data = inList
AssignData ==
    /\ pc = "idle"
    /\ obj # NoObject
    /\ \E inList \in ArgsOf(obj.kind) :
       \E out \in SetData(obj, inList) :
          /\ kw' = [kind |-> obj.kind, inList |-> inList, maxNum |-> obj.maxNum,
                    strict |-> obj.strict, minLen |-> obj.minLen, maxLen |-> obj.maxLen,
                    before |-> obj]
          /\ op' = "data"
          /\ error' = out.raised
          /\ obj' = out.obj
          /\ pc' = IF out.raised = "none" THEN "returned" ELSE "raised"
    /\ retList' = <<>>
    /\ errFile' = <<>>
    /\ UNCHANGED attribCallVars

\* email / sms / twitter .process_recipient_list(inList, maxNum)
CallRecipientList ==
    /\ pc = "idle"
    /\ obj = NoObject
    /\ \E channel \in {"email", "sms", "twitter"}, maxNum \in MaxNums :
       \E inList \in StrArgs(StringsOf(channel)) \cup EntityArgs :
       \E r \in process_recipient_list(channel, inList, maxNum) :
          /\ kw' = [kind |-> channel, inList |-> inList, maxNum |-> maxNum, strict |-> FALSE,
                    minLen |-> 0, maxLen |-> 0, before |-> obj]
          /\ op' = "process_recipient_list"
          /\ error' = r.raised
          /\ retList' = r.list
          /\ pc' = IF r.raised = "none" THEN "returned" ELSE "raised"
    /\ errFile' = <<>>
    /\ UNCHANGED obj
    /\ UNCHANGED attribCallVars

\* process_attachment_list(inList, inType, maxNum, strict) and
\* process_media_list(inList, maxNum, strict)
CallFileList ==
    /\ pc = "idle"
    /\ obj = NoObject
    /\ \E fn \in {"process_attachment_list", "process_media_list"}, maxNum \in MaxNums,
          strict \in BOOLEAN :
       \E inList \in StrArgs(FileStrings) :
          LET r == IF fn = "process_attachment_list"
                   THEN process_attachment_list(inList, "attachments", maxNum, strict)
                   ELSE process_media_list(inList, maxNum, strict)
          IN  /\ kw' = [kind |-> fn, inList |-> inList, maxNum |-> maxNum, strict |-> strict,
                        minLen |-> 0, maxLen |-> 0, before |-> obj]
              /\ op' = fn
              /\ error' = r.raised
              /\ errFile' = r.names
              /\ retList' = r.list
              /\ pc' = IF r.raised = "none" THEN "returned" ELSE "raised"
    /\ UNCHANGED obj
    /\ UNCHANGED attribCallVars

\* The statement is over; the caller keeps the object or lets it go.
AttribDone ==
    /\ pc \in {"returned", "raised"}
    /\ pc' = "idle"
    /\ op' = "none"
    /\ kw' = NoKw
    /\ error' = "none"
    /\ retList' = <<>>
    /\ errFile' = <<>>
    /\ obj' \in {obj, NoObject}
    /\ UNCHANGED attribCallVars

NextAttrib == Construct \/ AssignData \/ CallRecipientList \/ CallFileList \/ AttribDone

SpecAttrib == InitLibrary /\ [][NextAttrib]_vars

-----------------------------------------------------------------------------
(* Provider objects called directly: Twitter.send_message and               *)
(* Twilio.send_message                                                      *)

\* provider.send_message(msg, **kwargs): the keyword arguments, the
\* provider's defaults and the vendor's answers
NoSend == [provider |-> <<>>, msgBlank |-> FALSE, suppress |-> FALSE,
           method_dm |-> "missing", method_update |-> "missing",
           toEmpty |-> FALSE, fromBlank |-> FALSE,
           lookups |-> <<>>, oks |-> <<>>, updateOK |-> TRUE]

\* Twitter.send_message(msg, method_dm=..., method_update=..., ...)
TwitterSend ==
    /\ pc = "idle"
    /\ \E msgBlank \in BOOLEAN, suppress \in BOOLEAN, md \in MethodFlags, mu \in MethodFlags,
          te \in BOOLEAN, uo \in BOOLEAN, n \in 1..MaxRecipients :
       \E lk \in Outcomes(n), oks \in Outcomes(n) :
          LET out == Twitter_send_message(msgBlank, suppress, md, mu, te, lk, oks, uo)
          IN  /\ kw' = [NoSend EXCEPT !.provider = CHANNEL_TWITTER, !.msgBlank = msgBlank,
                                      !.suppress = suppress, !.method_dm = md,
                                      !.method_update = mu, !.toEmpty = te,
                                      !.lookups = lk, !.oks = oks, !.updateOK = uo]
              /\ vendor' = out.calls
              /\ results' = out.ret.items
              /\ error' = out.raised
              /\ pc' = IF out.raised = "none" THEN "returned" ELSE "raised"
    /\ op' = "Twitter.send_message"
    /\ UNCHANGED <<cfgVars, retList, retBool, chList, idx, invoked, attrs>>
    /\ UNCHANGED libVars

\* Twilio.send_message(msg, to_phone=..., suppress_errors=...)
TwilioSend ==
    /\ pc = "idle"
    /\ \E msgBlank \in BOOLEAN, suppress \in BOOLEAN, te \in BOOLEAN, fb \in BOOLEAN,
          n \in 1..(MaxRecipients + 1) :
       \E oks \in Outcomes(n) :
          LET out == Twilio_send_message(msgBlank, suppress, te, fb, oks)
          IN  /\ kw' = [NoSend EXCEPT !.provider = CHANNEL_TWILIO, !.msgBlank = msgBlank,
                                      !.suppress = suppress, !.toEmpty = te,
                                      !.fromBlank = fb, !.oks = oks]
              /\ vendor' = out.calls
              /\ results' = out.ret.items
              /\ error' = out.raised
              /\ pc' = IF out.raised = "none" THEN "returned" ELSE "raised"
    /\ op' = "Twilio.send_message"
    /\ UNCHANGED <<cfgVars, retList, retBool, chList, idx, invoked, attrs>>
    /\ UNCHANGED libVars

\* The call is over.
ProviderDone ==
    /\ pc \in {"returned", "raised"}
    /\ pc' = "idle"
    /\ op' = "none"
    /\ kw' = NoKw
    /\ error' = "none"
    /\ vendor' = <<>>
    /\ results' = <<>>
    /\ UNCHANGED <<cfgVars, retList, retBool, chList, idx, invoked, attrs>>
    /\ UNCHANGED libVars

NextProvider == TwitterSend \/ TwilioSend \/ ProviderDone

SpecProvider == InitLibrary /\ [][NextProvider]_vars

-----------------------------------------------------------------------------
(* Vocabulary of the properties *)

Min(S) == CHOOSE x \in S : \A y \in S : x <= y
Max(S) == CHOOSE x \in S : \A y \in S : x >= y

\* Positions of the delimiters of s, with one sentinel at each end.
Bars(s) == {0, Len(s) + 1} \cup { i \in 1..Len(s) : s[i] = BAR }

NthBar(s, k) == CHOOSE b \in Bars(s) : Cardinality({ c \in Bars(s) : c < b }) = k - 1

\* The `|`-delimited tokens of a string: the segments between delimiters.
Tokens(s) ==
    [k \in 1..(Cardinality(Bars(s)) - 1) |->
        SubSeq(s, NthBar(s, k) + 1, NthBar(s, k + 1) - 1)]

\* A token without its surrounding blanks.
Trim(t) ==
    LET I == { i \in 1..Len(t) : t[i] # SP }
    IN  IF I = {} THEN <<>> ELSE SubSeq(t, Min(I), Max(I))

\* The tokens of a selector as given: list elements, or the tokens of a
\* non-empty string.
GivenTokens(sel) ==
    IF sel.isList THEN sel.list
    ELSE IF sel.str = <<>> THEN <<>> ELSE Tokens(sel.str)

\* The trimmed tokens of a selector.
TrimmedTokens(sel) ==
    LET raw == IF sel.isList THEN sel.list ELSE Tokens(sel.str)
    IN  [i \in 1..Len(raw) |-> Trim(raw[i])]

KnownName(t)   == t \in CanonNames \/ t \in DOMAIN channel_map
AliasTarget(t) == IF t \in DOMAIN channel_map THEN channel_map[t] ELSE t
IsEnabled(n)   == n \in CanonNames /\ channels[n]

\* Strict resolution of a list of trimmed tokens: known tokens, aliases
\* replaced by their target, kept when the target is ENABLED.
RECURSIVE StrictResolution(_)
StrictResolution(ts) ==
    IF ts = <<>> THEN <<>>
    ELSE (IF KnownName(Head(ts)) /\ IsEnabled(AliasTarget(Head(ts)))
          THEN <<AliasTarget(Head(ts))>> ELSE <<>>)
         \o StrictResolution(Tail(ts))

IsPrefix(a, b) == Len(a) <= Len(b) /\ a = SubSeq(b, 1, Len(a))

Range(l) == { l[i] : i \in 1..Len(l) }

\* The selector send_message resolves: the `channels` keyword, or the
\* configured default list when the keyword is omitted.
DispatchSelector == IF kw.hasChannels THEN kw.sel ELSE ListSel(default_channels)

Finished == pc \in {"returned", "raised"}

\* The Response records the providers have handed back to the current call.
ResponsesReturned ==
    IF op = "send_message"
    THEN UNION { Range(results[i].items) : i \in 1..Len(results) }
    ELSE IF op = "send_message_via" THEN Range(results)
    ELSE {}

-----------------------------------------------------------------------------
(* Properties of Comms.send_message (checked under Spec) *)

\* C1: over a resolved list of two or more channels, a failure on one channel
\* (a failure Response, or an error the channel raised) does not keep the
\* remaining channels from being invoked: when send_message has finished,
\* every resolved channel's send_message has been called.
C1_EveryResolvedChannelInvoked ==
    (op = "send_message" /\ Finished /\ Len(chList) >= 2) => invoked = chList

\* C2: when strict resolution of the selector is empty, send_message raises
\* InvalidProviderError and no channel's send_message has been called.
C2_EmptyResolutionRaises ==
    (op = "send_message" /\ StrictResolution(TrimmedTokens(DispatchSelector)) = <<>>)
        => /\ pc = "raised"
           /\ error = "InvalidProviderError"
           /\ invoked = <<>>
           /\ vendor = <<>>

C2_Witness ==
    /\ op = "send_message"
    /\ kw.hasChannels
    /\ Len(TrimmedTokens(kw.sel)) = 2
    /\ \E i \in 1..2 : TrimmedTokens(kw.sel)[i] \in CanonNames
    /\ error = "InvalidProviderError"

C5_ReturnsFlatResponseList ==
    (op = "send_message" /\ pc = "returned")
        => \A i \in 1..Len(results) : results[i].tag = "Response"

\* C6: with suppress_errors=true a vendor-call failure on any channel is
\* captured as a Response with status failure and is never raised.
C6_SuppressedFailureIsCaptured ==
    (op = "send_message" /\ kw.suppress /\ Finished
        /\ \E i \in 1..Len(vendor) : ~vendor[i].ok)
        => error # "CommunicationsError"

\* C7: whenever a dispatch raises a Missing-attribute error, no vendor call
\* has been made on any channel during that dispatch.
C7_MissingAttributeBeforeAnyVendorCall ==
    (op = "send_message" /\ error = "MissingAttributeError") => vendor = <<>>

\* C13: every Response a provider built through _make_response and handed
\* back has status failure iff its errors value is neither None nor empty,
\* and status success otherwise.
C13_StatusFollowsErrors ==
    \A r \in ResponsesReturned :
        /\ r.status \in {STATUS_SUCCESS, STATUS_FAILURE}
        /\ r.status = STATUS_FAILURE <=> (~r.errors.isNone /\ Len(r.errors.items) > 0)

C13_Witness ==
    /\ op = "send_message"
    /\ pc = "returned"
    /\ \E r \in ResponsesReturned : r.status = STATUS_FAILURE
    /\ \E r \in ResponsesReturned : r.status = STATUS_SUCCESS /\ ~r.errors.isNone
    /\ \E r \in ResponsesReturned : r.status = STATUS_SUCCESS /\ r.errors.isNone

-----------------------------------------------------------------------------
(* Properties of Entity (checked under SpecEntity) *)

\* A field value as the field normalises it: names and addresses without
\* surrounding blanks, phone numbers reduced to digits and `+`, handles
\* without leading or trailing `@` and blanks.
Normal(field, val) ==
    CASE field \in {"name", "email"} -> Trim(val)
      [] field = "phone" -> SelectSeq(val, LAMBDA a : a \in PhoneAtoms)
      [] OTHER -> StripChars(val, {AT, SP})

\* The validator of a field, on a normalised value.
Passes(field, x) ==
    CASE field = "name"    -> StrLen(x) <= 128
      [] field = "email"   -> is_valid_email(x)
      [] field = "phone"   -> is_valid_phone(x) /\ StrLen(x) >= 11 /\ StrLen(x) <= 15
      [] field = "slack"   -> StrLen(x) <= 128
      [] field = "twitter" -> is_valid_twitter(x)

\* A value is invalid for a field when its normal form is non-empty and
\* fails the field's validator.
Invalid(field, val) == Normal(field, val) # <<>> /\ ~Passes(field, Normal(field, val))

\* C20: every non-empty field of every existing Entity passes the field's
\* validator; an assignment of an invalid value raises ValueError and leaves
\* every field of every Entity as it was, an assignment of any other value
\* stores its normal form, and a construction with an invalid argument raises
\* ValueError and creates nothing.
C20_EntityFieldsAlwaysValid ==
    /\ \A e \in EntityNames : entities[e] # NoEntity =>
          \A f \in Fields : entities[e][f] # <<>> => Passes(f, entities[e][f])
    /\ op = "setattr" =>
          IF Invalid(kw.field, kw.val)
          THEN error = "ValueError" /\ entities = kw.before
          ELSE /\ error = "none"
               /\ entities = [kw.before EXCEPT
                                 ![kw.target][kw.field] = Normal(kw.field, kw.val)]
    /\ op = "Entity" =>
          LET args == [f \in Fields |->
                          CASE f = "name"    -> kw.val[1]
                            [] f = "email"   -> kw.val[2]
                            [] f = "phone"   -> kw.val[3]
                            [] f = "slack"   -> kw.val[4]
                            [] f = "twitter" -> kw.val[5]]
          IN  IF \E f \in Fields : Invalid(f, args[f])
              THEN error = "ValueError" /\ entities = kw.before
              ELSE /\ error = "none"
                   /\ entities = [kw.before EXCEPT
                                     ![kw.target] = [f \in Fields |-> Normal(f, args[f])]]

C20_Witness ==
    /\ op = "setattr"
    /\ error = "ValueError"
    /\ kw.field = "phone"
    /\ entities[kw.target]["phone"] # <<>>
    /\ \A e \in EntityNames : entities[e] # NoEntity

\* The number of digits of a string of digits and `+`
RECURSIVE Digits(_)
Digits(s) ==
    IF s = <<>> THEN 0
    ELSE (IF Head(s) = "+1" THEN 1 ELSE AtomLen(Head(s))) + Digits(Tail(s))

\* C21: an Entity accepts a phone value iff, with every character other than
\* digits and `+` removed, it is empty ("no phone") or is `+`, a non-zero
\* digit and further digits with 11 to 15 digits in all; every other value
\* is rejected with ValueError.
C21_PhoneElevenToFifteenDigits ==
    (pc \in {"returned", "raised"} /\ op = "setattr" /\ kw.field = "phone") =>
        LET clean == PhoneChars(kw.val)
            accepted == \/ clean = <<>>
                        \/ (is_valid_phone(clean) /\ Digits(clean) >= 11 /\ Digits(clean) <= 15)
        IN  /\ pc = "returned" <=> accepted
            /\ pc = "raised" => error = "ValueError"

\* Two texts that differ at most in letter case / in the `+` sigil / in a
\* leading `@` and letter case
SameField(field, a, b) ==
    CASE field = "phone" -> StripPlus(a) = StripPlus(b)
      [] field \in {"twitter", "slack"} -> Lower(StripChars(a, {AT})) = Lower(StripChars(b, {AT}))
      [] OTHER -> Lower(a) = Lower(b)

\* C22: two Entity objects are equal iff at least one field (email, phone,
\* twitter, slack, name) is non-empty in both and matches, letter case
\* ignored for email, handles and name and the `+` ignored for phone; an
\* Entity never equals a value that is not an Entity; and the comparison
\* gives the same result with the operands exchanged.
C22_EqualOnAnySharedField ==
    (pc = "returned" /\ op = "__eq__") =>
        LET self  == entities[kw.target]
            other == kw.val
        IN  IF other.type # "Entity" THEN retBool = FALSE
            ELSE /\ retBool <=> \E f \in Fields :
                                   /\ self[f] # <<>> /\ other.ent[f] # <<>>
                                   /\ SameField(f, self[f], other.ent[f])
                 /\ retBool = Entity_eq(other.ent, EntItem(self))

C22_Witness ==
    /\ pc = "returned"
    /\ op = "__eq__"
    /\ kw.val.type = "Entity"
    /\ retBool
    /\ entities[kw.target]["email"] # <<>>
    /\ kw.val.ent["email"] # <<>>
    /\ entities[kw.target]["email"] # kw.val.ent["email"]
    /\ \A f \in Fields \ {"email"} : entities[kw.target][f] = <<>> \/ kw.val.ent[f] = <<>>

\* The first non-empty field of an Entity in the order email, phone,
\* twitter, slack, name
HashOrder == <<"email", "phone", "twitter", "slack", "name">>
Representative(ent) ==
    LET I == { i \in 1..Len(HashOrder) : ent[HashOrder[i]] # <<>> }
    IN  IF I = {} THEN <<>> ELSE ent[HashOrder[Min(I)]]

\* C23: the hash of an Entity is derived only from its first non-empty field
\* in the order email, phone, twitter, slack, name.  (That equality and
\* hash are then not consistent is shown by the state C23_Witness: two
\* objects that compare equal on a shared field and hash differently.)
C23_HashOfRepresentativeField ==
    (pc = "returned" /\ op = "__hash__") => retList = Representative(entities[kw.target])

C23_Witness ==
    /\ pc = "returned"
    /\ op = "__hash__"
    /\ \E o \in EntityNames \ {kw.target} :
          /\ entities[o] # NoEntity
          /\ Entity_eq(entities[kw.target], EntItem(entities[o]))
          /\ Entity_eq(entities[o], EntItem(entities[kw.target]))
          /\ retList # Entity_hash(entities[o])

-----------------------------------------------------------------------------
(* Properties of the attribute processors (checked under SpecAttrib) *)

\* The statement on a processor object that has just ended
ProcessorStatement == pc \in {"returned", "raised"} /\ op \in {"__init__", "data"}

\* The distinct recipients of an input that pass the channel's format check:
\* the addresses, numbers or handles of the strings once normalised, or the
\* non-empty identity keys of the Entity objects.
ValidRecipients(channel, inList) ==
    LET items == AsList(inList)
    IN  IF \A i \in 1..Len(items) : items[i].type = "str"
        THEN { OutRecipient(channel, items[i].str) :
                 i \in { j \in 1..Len(items) :
                           IsValidRecipient(channel, CleanRecipient(channel, items[j].str)) } }
        ELSE { items[i].ent[RecipientKey(channel)] :
                 i \in { j \in 1..Len(items) : items[j].ent[RecipientKey(channel)] # <<>> } }

\* C14: for a required recipient list (ToEmail, ToPhone, ToTwitter), when no
\* valid recipient remains after processing, construction or assignment to
\* `data` raises MissingAttributeError in strict mode and succeeds with
\* isValid false and empty data otherwise; when at least one valid recipient
\* remains it succeeds with isValid true; and isValid is true iff data holds
\* at least minNum recipients.
C14_RequiredRecipientList ==
    (ProcessorStatement /\ kw.kind \in RequiredLists) =>
        LET n == Cardinality(ValidRecipients(ChannelOf(kw.kind), kw.inList))
        IN  /\ (n = 0 /\ kw.strict) => error = "MissingAttributeError"
            /\ (n = 0 /\ ~kw.strict) => (error = "none" /\ ~obj.valid /\ obj.data = <<>>)
            /\ n > 0 => (error = "none" /\ obj.valid)
            /\ obj # NoObject => (obj.valid <=> Len(obj.data) >= obj.minNum)

\* The e-mail addresses of a returned recipient list, in order
EmailsOf(list) == [i \in 1..Len(list) |-> list[i].ent["email"]]

\* A list argument whose elements are all str / all Entity
ListOfStrings(inList) ==
    inList.type = "list" /\ \A i \in 1..Len(inList.items) : inList.items[i].type = "str"
ListOfEntities(inList) ==
    /\ inList.type \in {"list", "Entity"}
    /\ inList.items # <<>>
    /\ \A i \in 1..Len(inList.items) : inList.items[i].type = "Entity"

\* C15: for the email channel a recipient list given as strings is
\* normalised to one lower-cased recipient per distinct address: strings that
\* differ only in letter case or surrounding blanks give a single recipient,
\* so no two returned recipients share an address, every returned address is
\* the lower-cased form of a valid input, and with room for all of them
\* (maxNum at least the number of distinct addresses) each distinct address
\* is returned once.
C15_OneRecipientPerAddress ==
    (pc = "returned" /\ op = "process_recipient_list" /\ kw.kind = "email"
        /\ ListOfStrings(kw.inList) /\ kw.maxNum >= 0) =>
        LET addrs  == ValidRecipients("email", kw.inList)
            emails == EmailsOf(retList)
        IN  /\ \A i, j \in 1..Len(emails) : i # j => emails[i] # emails[j]
            /\ \A i \in 1..Len(emails) : emails[i] \in addrs
            /\ kw.maxNum >= Cardinality(addrs) => Len(emails) = Cardinality(addrs)

\* The phone numbers of a returned recipient list, in order
PhonesOf(list) == [i \in 1..Len(list) |-> list[i].ent["phone"]]

\* A str argument, or a list argument whose elements are all str
StringInput(inList) ==
    inList.type \in {"str", "list"}
        /\ \A i \in 1..Len(AsList(inList)) : AsList(inList)[i].type = "str"

\* C28: for a string or a list of strings the SMS process_recipient_list
\* never raises: it returns one recipient per distinct phone number that
\* passes validation (each of them once, with room for all of them) and
\* drops every other item without an error.
C28_SmsStringsNeverRaise ==
    (op = "process_recipient_list" /\ kw.kind = "sms" /\ StringInput(kw.inList)) =>
        LET numbers == ValidRecipients("sms", kw.inList)
            phones  == PhonesOf(retList)
        IN  /\ pc = "returned"
            /\ error = "none"
            /\ \A i, j \in 1..Len(phones) : i # j => phones[i] # phones[j]
            /\ \A i \in 1..Len(phones) : phones[i] \in numbers
            /\ kw.maxNum >= Cardinality(numbers) => Len(phones) = Cardinality(numbers)

\* The positions of the Entity objects that are the first, in input order, to
\* carry their (non-empty) value of the key
FirstSeen(items, key) ==
    { i \in 1..Len(items) :
         /\ items[i].ent[key] # <<>>
         /\ \A j \in 1..(i - 1) : items[j].ent[key] # items[i].ent[key] }

\* C16: for a recipient list given as Entity objects, process_recipient_list
\* returns the first-seen Entity of each distinct non-empty value of the
\* channel's identity key (email, phone or twitter), in input order, without
\* the objects whose key is empty, and cut to at most maxNum entries.
C16_FirstSeenPerIdentityKey ==
    (pc = "returned" /\ op = "process_recipient_list" /\ ListOfEntities(kw.inList)
        /\ kw.maxNum >= 0) =>
        LET items == kw.inList.items
            first == FirstSeen(items, RecipientKey(kw.kind))
        IN  /\ Len(retList) = Min2(Cardinality(first), kw.maxNum)
            /\ Len(retList) <= kw.maxNum
            /\ \A k \in 1..Len(retList) :
                  \E i \in first : /\ retList[k] = items[i]
                                   /\ Cardinality({ j \in first : j < i }) = k - 1

C16_Witness ==
    /\ pc = "returned"
    /\ op = "process_recipient_list"
    /\ ListOfEntities(kw.inList)
    /\ Len(kw.inList.items) = 3
    /\ kw.maxNum = 1
    /\ Len(retList) = 1
    /\ Cardinality(FirstSeen(kw.inList.items, RecipientKey(kw.kind))) = 2
    /\ \E i, j \in 1..3 :
          /\ i < j
          /\ kw.inList.items[i].ent[RecipientKey(kw.kind)] # <<>>
          /\ kw.inList.items[i].ent[RecipientKey(kw.kind)]
                = kw.inList.items[j].ent[RecipientKey(kw.kind)]
          /\ kw.inList.items[i].ent["name"] # kw.inList.items[j].ent["name"]
          /\ retList[1] = kw.inList.items[i]

\* C17: for every AttributeProcessor class and every integer maxNum given at
\* construction, zero and negative ones included, the object's maxNum is at
\* least its minNum and the object never stores more entries than its
\* maxNum; a required recipient list built with maxNum = 0 has maxNum 1.
C17_MaxNumClampedToMinNum ==
    obj # NoObject =>
        /\ obj.maxNum >= obj.minNum
        /\ Len(obj.data) <= obj.maxNum
        /\ (pc = "returned" /\ op = "__init__" /\ kw.kind \in RequiredLists /\ kw.maxNum = 0)
              => obj.maxNum = 1

\* The attachment list of the scenario: an existing file, a blank entry and a
\* missing file, in that order
ExistingBlankMissing == PyItems(<<StrItem(REAL_FILE), StrItem(<<>>), StrItem(MISSING_FILE)>>)

\* C18 as stated: for the list [existing, blank, missing], non-strict
\* processing returns only the existing file, and strict processing raises
\* InvalidAttributeError whose message names the missing file.
C18_StrictNamesMissingFile ==
    (op = "process_attachment_list" /\ kw.inList = ExistingBlankMissing /\ kw.maxNum >= 1) =>
        IF kw.strict
        THEN error = "InvalidAttributeError" /\ errFile = MISSING_FILE
        ELSE error = "none" /\ retList = <<StrItem(REAL_FILE)>>

\* The entries of a list that are an existing file, a blank or a missing file
PlainFileList(inList) ==
    /\ inList.type = "list"
    /\ \A i \in 1..Len(inList.items) : inList.items[i].str \in {REAL_FILE, <<>>, MISSING_FILE}

\* C18, amended: for a list of existing, blank and missing entries,
\* non-strict processing returns the existing files in order (at most maxNum
\* of them) and skips the rest; strict processing raises
\* InvalidAttributeError at the first entry that is blank or missing, and
\* the message names that entry, `<blank>` standing for a blank one, so for
\* [existing, blank, missing] the message names `<blank>`.
C18_StrictNamesFirstBadEntry ==
    (op = "process_attachment_list" /\ PlainFileList(kw.inList) /\ kw.maxNum >= 0) =>
        LET items == kw.inList.items
            bad   == { i \in 1..Len(items) : items[i].str # REAL_FILE }
        IN  IF kw.strict /\ bad # {}
            THEN LET b == CHOOSE i \in bad : \A j \in bad : i <= j
                 IN  /\ error = "InvalidAttributeError"
                     /\ errFile = IF items[b].str = <<>> THEN <<"<blank>">> ELSE MISSING_FILE
            ELSE /\ error = "none"
                 /\ retList = Slice(SelectSeq(items, LAMBDA it : it.str = REAL_FILE), kw.maxNum)

C18_Witness ==
    /\ pc = "raised"
    /\ op = "process_attachment_list"
    /\ kw.inList = ExistingBlankMissing
    /\ kw.strict
    /\ error = "InvalidAttributeError"
    /\ errFile = <<"<blank>">>

\* C19: a Tags list built with a given maxNum and minLen holds no more than
\* that maxNum tags and no tag whose input was shorter than minLen, for every
\* maxNum, those below the module's default limit of 3 included.
C19_TagsWithinGivenMaxNum ==
    (pc = "returned" /\ op = "__init__" /\ kw.kind = "Tags" /\ kw.maxNum >= 0) =>
        /\ Len(obj.data) <= kw.maxNum
        /\ \A i \in 1..Len(obj.data) : StrLen(obj.data[i].str) >= kw.minLen

-----------------------------------------------------------------------------
(* Properties of the providers called directly (checked under SpecProvider) *)

\* The method the documentation of Twitter.send_message gives for the two
\* flags: DM when method_dm is True; status update when it is False; when it
\* is missing, status update unless method_update is False.
DocumentedDM(method_dm, method_update) ==
    IF method_dm # "missing" THEN method_dm = "True" ELSE method_update = "False"

\* C24: Twitter.send_message chooses its delivery method as its
\* documentation lists, so whenever it reaches the Twitter API the first
\* call is a status update exactly when the documented method is not DM.
C24_MethodAsDocumented ==
    (op = "Twitter.send_message" /\ vendor # <<>>) =>
        (vendor[1].api = "update_status"
            <=> ~DocumentedDM(kw.method_dm, kw.method_update))

\* C27: Response.isOK is true iff the response carries no errors: every
\* Response built by _make_response has isOK exactly when its status is
\* success, also when the provider passed an empty error list.
C27_IsOKIffSuccess ==
    (pc = "returned" /\ op \in {"Twitter.send_message", "Twilio.send_message"}) =>
        \A i \in 1..Len(results) :
            isOK(results[i]) <=> results[i].status = STATUS_SUCCESS

\* C26: Twilio.send_message contacts its recipients one at a time in list
\* order; without suppress_errors, a vendor failure for one recipient raises
\* CommunicationsError when every earlier recipient has been sent the
\* message and no later one has been contacted, and the caller gets no
\* Response for any recipient.
C26_TwilioStopsAtFirstFailure ==
    (op = "Twilio.send_message" /\ ~kw.suppress /\ ~kw.msgBlank /\ ~kw.toEmpty
        /\ ~kw.fromBlank /\ \E i \in 1..Len(kw.oks) : ~kw.oks[i]) =>
        LET k == Min({ i \in 1..Len(kw.oks) : ~kw.oks[i] })
        IN  /\ pc = "raised"
            /\ error = "CommunicationsError"
            /\ Len(vendor) = k
            /\ \A i \in 1..k : vendor[i] = VendorCall("messages.create", i < k)
            /\ results = <<>>

C26_Witness ==
    /\ op = "Twilio.send_message"
    /\ ~kw.suppress
    /\ kw.oks = <<TRUE, FALSE, TRUE>>
    /\ error = "CommunicationsError"
    /\ Len(vendor) = 2
    /\ results = <<>>

-----------------------------------------------------------------------------
(* Properties of the constructed Comms (checked under SpecComms) *)

\* C12: after construction the registry holds exactly the four canonical
\* names, a channel is ENABLED iff its section was present in the
\* configuration, and the registry, the alias map and the default-channel
\* list stay as construction left them through every call, returned or
\* raised.
C12_ConfigurationIsFrozen ==
    /\ DOMAIN channels = CanonNames
    /\ \A c \in CanonNames : channels[c] <=> c \in settings.sections
    /\ channel_map = settings.channel_map
    /\ default_channels = Split(settings.channels)

C12_Witness ==
    /\ op = "send_message"
    /\ pc = "raised"
    /\ error = "CommunicationsError"
    /\ vendor # <<>>
    /\ settings.sections \notin {{}, CanonNames}
    /\ DOMAIN channel_map # {}

-----------------------------------------------------------------------------
(* Properties of channel resolution (checked under SpecResolve) *)

\* C11: a selector consisting of the literal token `all` selects every
\* registered channel: process_channel_list does not treat it as an unknown
\* name, so at least every registered ENABLED channel is in its result.
C11_AllSelectsRegistry ==
    (op = "process_channel_list" /\ TrimmedTokens(kw.sel) = <<CHANNEL_ALL>>)
        => \A c \in CanonNames : channels[c] => c \in Range(retList)

\* C4: in strict mode process_channel_list takes the trimmed, non-empty
\* tokens of the selector that are canonical names or alias keys, replaces
\* each alias by its target and returns exactly those whose registry entry is
\* ENABLED; unknown tokens, empty tokens and names or aliases of disabled
\* channels never appear in the result.
C4_StrictProcessChannelList ==
    (op = "process_channel_list" /\ kw.strict)
        => /\ retList = StrictResolution(TrimmedTokens(kw.sel))
           /\ \A i \in 1..Len(retList) : IsEnabled(retList[i])

C4_Witness ==
    /\ op = "process_channel_list"
    /\ kw.strict
    /\ ~kw.sel.isList
    /\ Len(retList) = 1
    /\ \E i \in 1..Len(Tokens(kw.sel.str)) :
          /\ Tokens(kw.sel.str)[i] # Trim(Tokens(kw.sel.str)[i])
          /\ Trim(Tokens(kw.sel.str)[i]) \in DOMAIN channel_map
    /\ \E i \in 1..Len(Tokens(kw.sel.str)) : ~KnownName(Trim(Tokens(kw.sel.str)[i]))

\* C8: is_valid_channel(selector) is true iff the selector has at least one
\* token and every token, as given, is a canonical registry name or an alias
\* key, whether or not the channel it names is ENABLED.
C8_IsValidChannel ==
    op = "is_valid_channel" =>
        LET toks == GivenTokens(kw.sel)
        IN  retBool = (toks # <<>> /\ \A i \in 1..Len(toks) : KnownName(toks[i]))

C8_Witness ==
    /\ op = "is_valid_channel"
    /\ retBool
    /\ Len(GivenTokens(kw.sel)) = 2
    /\ \E i \in 1..2 : /\ GivenTokens(kw.sel)[i] \in DOMAIN channel_map
                       /\ ~IsEnabled(AliasTarget(GivenTokens(kw.sel)[i]))
    /\ \E i \in 1..2 : /\ GivenTokens(kw.sel)[i] \in CanonNames
                       /\ ~channels[GivenTokens(kw.sel)[i]]

\* C9: is_enabled_channel(selector) is true iff every token of the selector,
\* after alias resolution through the alias map, names a registered and
\* ENABLED channel.
C9_IsEnabledAfterAliasResolution ==
    (op = "is_enabled_channel" /\ GivenTokens(kw.sel) # <<>>) =>
        LET toks == GivenTokens(kw.sel)
        IN  retBool = \A i \in 1..Len(toks) : IsEnabled(AliasTarget(toks[i]))

\* C10 as stated: for every registry and every alias map, resolving a list of
\* canonical, ENABLED channel names returns the same set of names.
C10_ResolutionIdempotent ==
    (op = "process_channel_list" /\ kw.sel.isList
        /\ \A i \in 1..Len(kw.sel.list) : IsEnabled(kw.sel.list[i]))
        => Range(retList) = Range(kw.sel.list)

\* C10 amended: resolving a list of canonical, ENABLED channel names none of
\* which is a key of the alias map returns the same set of names, and
\* resolving such a result again does not change it.
C10_ResolutionIdempotentOffAliasKeys ==
    op = "process_channel_list" =>
        /\ (/\ kw.sel.isList
            /\ \A i \in 1..Len(kw.sel.list) :
                  IsEnabled(kw.sel.list[i]) /\ kw.sel.list[i] \notin DOMAIN channel_map)
              => Range(retList) = Range(kw.sel.list)
        /\ (\A i \in 1..Len(retList) : retList[i] \notin DOMAIN channel_map)
              => Range(process_channel_list(ListSel(retList), kw.strict)) = Range(retList)

C10_Witness ==
    /\ op = "process_channel_list"
    /\ kw.sel.isList
    /\ Len(kw.sel.list) = 2
    /\ kw.sel.list[1] # kw.sel.list[2]
    /\ \A i \in 1..2 : IsEnabled(kw.sel.list[i]) /\ kw.sel.list[i] \notin DOMAIN channel_map
    /\ DOMAIN channel_map # {}
    /\ retList = kw.sel.list

\* C29: for every selector, a string or a list of strings, and for strict
\* true and false alike, every element of the list process_channel_list
\* returns is a key of the channel registry whose provider is ENABLED.
C29_ReturnsEnabledRegistryKeys ==
    op = "process_channel_list" =>
        \A i \in 1..Len(retList) :
            retList[i] \in DOMAIN channels /\ channels[retList[i]]

\* C30: for every registry, alias map and selector, is_enabled_channel
\* implies is_valid_channel: a selector reported as enabled is reported as
\* valid, and a selector reported as invalid is not reported as enabled.
C30_EnabledImpliesValid ==
    /\ (op = "is_enabled_channel" /\ retBool) => is_valid_channel(kw.sel)
    /\ (op = "is_valid_channel" /\ ~retBool) => ~is_enabled_channel(kw.sel)

C30_Witness ==
    /\ op = "is_enabled_channel"
    /\ retBool
    /\ ~kw.sel.isList
    /\ Len(_normalize_channel_list(kw.sel)) = 2
    /\ DOMAIN channel_map # {}
    /\ \E c \in CanonNames : ~channels[c]

-----------------------------------------------------------------------------
(* Properties of resolution and dispatch together (checked under SpecComms) *)

\* The number of times c occurs in the list l
Count(l, c) == Cardinality({ i \in 1..Len(l) : l[i] = c })

\* The trimmed tokens of a selector that survive resolution, in input order:
\* non-empty, known in strict mode, and passing the ENABLED filter once an
\* alias has been replaced by its target.
SurvivingTokens(sel, strict) ==
    LET Survives(t) == /\ t # <<>>
                       /\ strict => KnownName(t)
                       /\ is_enabled_channel(StrSel(AliasTarget(t)))
    IN  SelectSeq(TrimmedTokens(sel), Survives)

\* C25: process_channel_list returns one entry per surviving token of its
\* input, in input order, the alias of a channel and its canonical name
\* giving two entries; and send_message calls the channels' send_message
\* entry by entry in that order, so when it returns each channel has been
\* called once per entry and a channel named twice has been sent the message
\* twice.
C25_OneEntryPerSurvivingToken ==
    /\ op = "process_channel_list" =>
          LET toks == SurvivingTokens(kw.sel, kw.strict)
          IN  /\ Len(retList) = Len(toks)
              /\ \A i \in 1..Len(toks) : retList[i] = AliasTarget(toks[i])
    /\ op = "send_message" =>
          LET toks == SurvivingTokens(DispatchSelector, TRUE)
          IN  /\ Len(invoked) <= Len(toks)
              /\ \A i \in 1..Len(invoked) : invoked[i] = AliasTarget(toks[i])
    /\ (op = "send_message" /\ pc = "returned") =>
          LET toks == SurvivingTokens(DispatchSelector, TRUE)
          IN  /\ Len(invoked) = Len(toks)
              /\ \A c \in CanonNames :
                    Count(invoked, c)
                        = Cardinality({ i \in 1..Len(toks) : AliasTarget(toks[i]) = c })

C25_Witness ==
    /\ op = "send_message"
    /\ pc = "returned"
    /\ kw.hasChannels
    /\ TrimmedTokens(kw.sel) = << <<"email">>, CHANNEL_MAILGUN >>
    /\ invoked = <<CHANNEL_MAILGUN, CHANNEL_MAILGUN>>
    /\ vendor = <<VendorCall("requests.post", TRUE), VendorCall("requests.post", TRUE)>>

====
